---- MODULE Spec2Model ----
(***************************************************************************)
(* SwarmChemistry relay servers.                                           *)
(*                                                                         *)
(*   "railway"  the Railway server with JSON and standard-text ingest      *)
(*              (src/unnamed/part_000, lines 204-534)                      *)
(*   "example"  server-example.js, JSON ingest with a write-through file   *)
(*                                                                         *)
(* Both keep the process-wide array swarmDataStore, newest record first.   *)
(* A request handler runs to completion unless it awaits; the only await   *)
(* of the two servers is `await saveDataToFile()` of server-example.js.    *)
(*                                                                         *)
(* JavaScript values are encoded so that TLC can compare them:             *)
(*   - a value that may be undefined is a sequence of length 0 or 1:       *)
(*     UNDEFINED = <<>>, Some(v) = <<v>>;                                  *)
(*   - a JavaScript number that may be NaN is NaN = <<>> or Num(v) = <<v>>;*)
(*     the real-valued swarm parameters are counted in thousandths         *)
(*     (Num(1250) is 1.25);                                                *)
(*   - a text is a sequence of one-character strings.                      *)
(***************************************************************************)
EXTENDS Integers, Sequences, FiniteSets, TLC

VARIABLES
    server,          \* which server this process runs
    swarmDataStore,  \* the store: a sequence of records, newest first
    clock,           \* Date.now(), in milliseconds
    response,        \* the response sent last
    pending,         \* example: ingest handlers suspended at `await saveDataToFile()`
    dataFile,        \* example: content of swarm-data.json, UNDEFINED when there is none
    inserted,        \* history: every record inserted since start, in insertion order
    seeded,          \* history: the store as loadExistingData left it
    textBody,        \* the text the client of this behaviour posts
    writeFailed,     \* history: a write of saveDataToFile has failed
    answers          \* history: answers[k] counts the responses sent to the k-th ingest call

vars == <<server, swarmDataStore, clock, response, pending, dataFile, inserted, seeded,
          textBody, writeFailed, answers>>

-----------------------------------------------------------------------------
(* Bounds of the model *)

MaxIngest == 2      \* ingest calls in a behaviour of Spec
MaxClock == 1       \* milliseconds the clock advances in a behaviour of Spec
MaxInFlight == 2    \* example: ingest handlers suspended at the same time
MaxExtra == 2       \* SpecRetention: ingest calls beyond the capacity

(* Program constants *)

MAX_STORED_DATA == 50     \* part_000: const MAX_STORED_DATA = 50
EXAMPLE_MAX_STORED == 100 \* server-example.js: the literal 100 of the trim
DEFAULT_LIMIT == 10       \* parseInt(req.query.limit) || 10

-----------------------------------------------------------------------------
(* JavaScript values *)

UNDEFINED == <<>>
Some(v) == <<v>>
IsDefined(x) == x # <<>>
Val(x) == x[1]

NaN == <<>>
Num(v) == <<v>>
IsNaN(x) == x = <<>>

Min(a, b) == IF a <= b THEN a ELSE b

\* Array.prototype.slice(0, end) of a sequence: a negative end counts from the
\* end of the array, and the result is empty when the range is empty.
Slice0(arr, end) ==
    LET len == Len(arr)
        k == IF end < 0 THEN (IF len + end < 0 THEN 0 ELSE len + end)
                        ELSE Min(end, len)
    IN  SubSeq(arr, 1, k)

RECURSIVE SumSeq(_)
SumSeq(s) == IF s = <<>> THEN 0 ELSE Head(s) + SumSeq(Tail(s))

-----------------------------------------------------------------------------
(* Texts: sequences of one-character strings *)

Digits == <<"0", "1", "2", "3", "4", "5", "6", "7", "8", "9">>

IsDigit(c) == \E d \in 1..10 : Digits[d] = c

DigitVal(c) == (CHOOSE d \in 1..10 : Digits[d] = c) - 1

\* \s of a regular expression and the white space trim() and parseInt skip
IsSpace(c) == c \in {" ", "\t", "\r", "\n"}

\* the index after the white space that starts at i
RECURSIVE SkipSpace(_, _)
SkipSpace(s, i) == IF i <= Len(s) /\ IsSpace(s[i]) THEN SkipSpace(s, i + 1) ELSE i

\* the index after the digits that start at i
RECURSIVE SkipDigits(_, _)
SkipDigits(s, i) == IF i <= Len(s) /\ IsDigit(s[i]) THEN SkipDigits(s, i + 1) ELSE i

\* the number the digits s[i..j-1] write, 0 for none
RECURSIVE DigitsValue(_, _, _)
DigitsValue(s, i, j) ==
    IF i >= j THEN 0 ELSE 10 * DigitsValue(s, i, j - 1) + DigitVal(s[j - 1])

\* parseInt(s): white space, a sign, then the longest run of digits; NaN
\* when there is no digit
ParseInt(s) ==
    LET a == SkipSpace(s, 1)
        neg == a <= Len(s) /\ s[a] = "-"
        b == IF a <= Len(s) /\ s[a] \in {"-", "+"} THEN a + 1 ELSE a
        e == SkipDigits(s, b)
    IN  IF e = b THEN NaN
        ELSE Num(IF neg THEN 0 - DigitsValue(s, b, e) ELSE DigitsValue(s, b, e))

\* String.prototype.trim()
RECURSIVE TrimEnd(_)
TrimEnd(s) == IF s # <<>> /\ IsSpace(s[Len(s)]) THEN TrimEnd(SubSeq(s, 1, Len(s) - 1)) ELSE s

Trim(s) == TrimEnd(SubSeq(s, SkipSpace(s, 1), Len(s)))

\* the index of the first c at or after i, Len(s) + 1 when there is none
RECURSIVE IndexOf(_, _, _)
IndexOf(s, c, i) == IF i > Len(s) \/ s[i] = c THEN i ELSE IndexOf(s, c, i + 1)

\* String.prototype.split(sep) for a one-character separator
RECURSIVE Split(_, _)
Split(s, sep) ==
    LET k == IndexOf(s, sep, 1)
    IN  IF k > Len(s) THEN <<s>>
        ELSE <<SubSeq(s, 1, k - 1)>> \o Split(SubSeq(s, k + 1, Len(s)), sep)

\* Array.prototype.join(sep)
RECURSIVE Join(_, _)
Join(parts, sep) ==
    IF parts = <<>> THEN <<>>
    ELSE IF Len(parts) = 1 THEN parts[1]
    ELSE parts[1] \o sep \o Join(Tail(parts), sep)

\* the decimal digits of n >= 0
RECURSIVE NatToText(_)
NatToText(n) == IF n < 10 THEN <<Digits[n + 1]>> ELSE NatToText(n \div 10) \o <<Digits[(n % 10) + 1]>>

\* String(n) of an integer
IntToText(n) == IF n < 0 THEN <<"-">> \o NatToText(0 - n) ELSE NatToText(n)

\* the first three digits of s[i..j-1] as thousandths: ".5" is 500, ".125" is 125
FractionValue(s, i, j) ==
    LET d(k) == IF i + k < j THEN DigitVal(s[i + k]) ELSE 0
    IN  100 * d(0) + 10 * d(1) + d(2)

\* parseFloat(s): white space, a sign, digits, a fraction; the longest prefix
\* that is a decimal literal, NaN when there is none. The texts of the model
\* write no exponent and at most three decimals.
ParseFloat(s) ==
    LET a == SkipSpace(s, 1)
        neg == a <= Len(s) /\ s[a] = "-"
        b == IF a <= Len(s) /\ s[a] \in {"-", "+"} THEN a + 1 ELSE a
        e == SkipDigits(s, b)
        dot == e <= Len(s) /\ s[e] = "."
        f == IF dot THEN SkipDigits(s, e + 1) ELSE e
        fracDigits == IF dot THEN f - (e + 1) ELSE 0
        v == 1000 * DigitsValue(s, b, e) + (IF dot THEN FractionValue(s, e + 1, f) ELSE 0)
    IN  IF e = b /\ fracDigits = 0 THEN NaN
        ELSE Num(IF neg THEN 0 - v ELSE v)

\* Number.prototype.toFixed(2) of a number in thousandths. A tie (a 5 in the
\* third decimal) is rounded away from zero here; JavaScript rounds the binary
\* value, which may lie on either side.
ToFixed2(x) ==
    IF IsNaN(x) THEN <<"N", "a", "N">>
    ELSE LET v == Val(x)
             mag == IF v < 0 THEN 0 - v ELSE v
             h == (mag + 5) \div 10
         IN  (IF v < 0 THEN <<"-">> ELSE <<>>)
                 \o NatToText(h \div 100) \o <<".">>
                 \o <<Digits[((h \div 10) % 10) + 1], Digits[(h % 10) + 1]>>

-----------------------------------------------------------------------------
(* parseStandardFormat, convertToStandardFormat *)

\* An attempt of /(\d+)\s*\*\s*\(([^)]+)\)/ at index i of the line: the digits,
\* white space, the star, white space, the parenthesis, one or more characters
\* other than ")", and the ")". It yields the two groups, or UNDEFINED.
MatchAt(line, i) ==
    LET j == SkipDigits(line, i)
        k == SkipSpace(line, j)
        m == IF k <= Len(line) /\ line[k] = "*" THEN SkipSpace(line, k + 1) ELSE Len(line) + 1
        r == IndexOf(line, ")", m + 1)
    IN  IF j > i /\ m <= Len(line) /\ line[m] = "(" /\ r <= Len(line) /\ r > m + 1
        THEN Some([count |-> SubSeq(line, i, j - 1), group |-> SubSeq(line, m + 1, r - 1)])
        ELSE UNDEFINED

\* line.match(...): the regular expression is not anchored; the match is the
\* leftmost one.
RECURSIVE MatchFrom(_, _)
MatchFrom(line, i) ==
    IF i > Len(line) THEN UNDEFINED
    ELSE IF IsDefined(MatchAt(line, i)) THEN MatchAt(line, i)
    ELSE MatchFrom(line, i + 1)

LineMatch(line) == MatchFrom(line, 1)

\* textData.trim().split('\n').filter(line => line.trim())
NonBlankLines(textData) == SelectSeq(Split(Trim(textData), "\n"), LAMBDA line : Trim(line) # <<>>)

\* match[2].split(',').map(p => parseFloat(p.trim()))
GroupParams(group) ==
    LET parts == Split(group, ",")
    IN  [i \in 1..Len(parts) |-> ParseFloat(Trim(parts[i]))]

\* The populations one line contributes: one when the line matches and its
\* group has eight comma-separated parts, none otherwise.
LinePopulations(line, color) ==
    LET match == LineMatch(line)
    IN  IF ~IsDefined(match) THEN <<>>
        ELSE LET count == Val(ParseInt(Val(match).count))
                 params == GroupParams(Val(match).group)
             IN  IF Len(params) = 8
                 THEN << [count |-> count,
                          parameters |-> Some(
                              [neighborhoodRadius |-> params[1],
                               normalSpeed |-> params[2],
                               maxSpeed |-> params[3],
                               c1 |-> params[4],
                               c2 |-> params[5],
                               c3 |-> params[6],
                               c4 |-> params[7],
                               c5 |-> params[8],
                               color |-> color])] >>
                 ELSE <<>>

\* lines.forEach(...): the populations of the lines, in line order
RECURSIVE LinesPopulations(_, _)
LinesPopulations(lines, color) ==
    IF lines = <<>> THEN <<>>
    ELSE LinePopulations(Head(lines), color) \o LinesPopulations(Tail(lines), color)

ParsePopulations(textData, color) == LinesPopulations(NonBlankLines(textData), color)

\* totalIndividuals += count, once for each population pushed
CountSum(pops) == SumSeq([i \in 1..Len(pops) |-> pops[i].count])

\* generateRandomColor(): one of the colours Math.random() can yield
RandomColor == "hsl(120, 80%, 65%)"

\* 'standard_' + Date.now() + '_' + Math.random().toString(36).substr(2, 9)
StandardSessionId(now, rnd) == "standard_" \o ToString(now) \o "_" \o ToString(rnd)

\* parseStandardFormat leaving `populations` out of the record when no line
\* has yielded a population
parseStandardFormatWithoutEmpty(textData, now, rnd) ==
    LET populations == ParsePopulations(textData, RandomColor)
    IN  [sessionId |-> Some(StandardSessionId(now, rnd)),
         populations |-> IF populations = <<>> THEN UNDEFINED ELSE Some(populations),
         totalIndividuals |-> Some(CountSum(populations)),
         userAgent |-> Some("Standard Format Parser"),
         format |-> Some("standard")]

parseStandardFormat(textData, now, rnd) ==
    LET populations == ParsePopulations(textData, RandomColor)
    IN  [sessionId |-> Some(StandardSessionId(now, rnd)),
         populations |-> Some(populations),
         totalIndividuals |-> Some(CountSum(populations)),
         userAgent |-> Some("Standard Format Parser"),
         format |-> Some("standard")]

\* params.x.toFixed(2) throws on a population that has no parameters
ConvertThrows(data) ==
    /\ IsDefined(data.populations)
    /\ \E i \in 1..Len(Val(data.populations)) : ~IsDefined(Val(data.populations)[i].parameters)

\* `${pop.count} * (${params.neighborhoodRadius.toFixed(2)}, ...)`
PopulationLine(pop) ==
    LET params == Val(pop.parameters)
    IN  IntToText(pop.count) \o <<" ", "*", " ", "(">>
            \o Join(<<ToFixed2(params.neighborhoodRadius), ToFixed2(params.normalSpeed),
                      ToFixed2(params.maxSpeed), ToFixed2(params.c1), ToFixed2(params.c2),
                      ToFixed2(params.c3), ToFixed2(params.c4), ToFixed2(params.c5)>>,
                    <<",", " ">>)
            \o <<")">>

\* convertToStandardFormat(data), for data on which it does not throw
convertToStandardFormat(data) ==
    IF ~IsDefined(data.populations) THEN <<>>
    ELSE Join([i \in 1..Len(Val(data.populations)) |-> PopulationLine(Val(data.populations)[i])],
              <<"\n">>)

-----------------------------------------------------------------------------
(* Request bodies *)

Params(v) ==
    [neighborhoodRadius |-> Num(v), normalSpeed |-> Num(1000), maxSpeed |-> Num(2000),
     c1 |-> Num(500), c2 |-> Num(500), c3 |-> Num(500), c4 |-> Num(100), c5 |-> Num(900),
     color |-> "hsl(0, 60%, 50%)"]

Pop(n) == [count |-> n, parameters |-> Some(Params(10000))]

JsonBody(sid, pops, total, ua) ==
    [sessionId |-> sid, populations |-> pops, totalIndividuals |-> total,
     userAgent |-> ua, format |-> UNDEFINED]

\* What the web page sends: the total is the sum of the counts.
WellFormed(sid, pops) ==
    JsonBody(Some(sid), Some(pops), Some(CountSum(pops)), Some("Mozilla/5.0"))

DefaultBody == WellFormed("s1", <<Pop(2), Pop(1)>>)

\* JSON request bodies: express.json() hands the handler any JSON object.
JsonBodies ==
    { DefaultBody,
      \* {}: no `populations` field, nor any other
      JsonBody(UNDEFINED, UNDEFINED, UNDEFINED, UNDEFINED),
      \* a total that is not the sum of the counts, a population without `parameters`
      JsonBody(Some("s2"), Some(<<[count |-> 4, parameters |-> UNDEFINED]>>), Some(5),
               Some("Mozilla/5.0 Mobile")) }

\* A line of the standard format, written with text before and after it and
\* with the white space sp around the star.
StandardLine(before, count, sp, tokens, after) ==
    before \o count \o sp \o <<"*">> \o sp \o <<"(">> \o Join(tokens, <<",", " ">>) \o <<")">>
        \o after

\* 10.0, 1.0, 2.0, 0.5, 0.5, 0.5, 0.1, 0.9
GoodTokens ==
    << <<"1", "0", ".", "0">>, <<"1", ".", "0">>, <<"2", ".", "0">>, <<"0", ".", "5">>,
       <<"0", ".", "5">>, <<"0", ".", "5">>, <<"0", ".", "1">>, <<"0", ".", "9">> >>

\* "2 * (10.0, 1.0, 2.0, 0.5, 0.5, 0.5, 0.1, 0.9)"
ScenarioALine == StandardLine(<<>>, <<"2">>, <<" ">>, GoodTokens, <<>>)

GarbageLine == <<"h", "e", "l", "l", "o">>

\* Text request bodies of Spec: express.text() hands the handler a string.
TextBodies ==
    { ScenarioALine,
      ScenarioALine \o <<"\n">> \o GarbageLine,
      GarbageLine }

\* Tokens that are not plain numbers, or are numbers the serializer rounds.
OddTokens ==
    { <<"x">>, <<"1", ".", "5", "x">>, <<>>, <<"-", "1">>, <<".", "5">>,
      <<"1", ".", "2", "5", "4">>, <<"3", "7">> }

TokenLists ==
    {GoodTokens, SubSeq(GoodTokens, 1, 7), GoodTokens \o << <<"1">> >>, << <<"1">> >>}
        \cup { [GoodTokens EXCEPT ![k] = t] : k \in {1, 8}, t \in OddTokens }

\* Lines the text bodies of SpecParse are made of.
ParseLines ==
    { StandardLine(before, count, <<" ">>, GoodTokens, after) :
          before \in {<<>>, <<" ">>, <<"x">>, <<"-">>, <<"1", ".">>},
          count \in {<<"2">>, <<"0", "1", "0">>},
          after \in {<<>>, <<" ", "\r">>, <<"x">>} }
        \cup { StandardLine(<<>>, <<"3">>, sp, tokens, <<>>) :
                  sp \in {<<>>, <<" ", "\t">>}, tokens \in TokenLists }
        \cup { GarbageLine, <<" ">>, <<"2", " ", "*", " ", "(", ")">>,
               <<"2", " ", "*", " ", "(", "1", ",", "2">>,
               <<"*", " ", "(", "1", ")">>, <<"2", " ", "(", "1", ")">> }

\* Text request bodies of SpecParse: no line, one line, or two lines around
\* the line of scenario A.
ParseTexts ==
    {<<>>} \cup ParseLines
        \cup { ScenarioALine \o <<"\n">> \o l : l \in ParseLines }
        \cup { l \o <<"\n", "\n">> \o ScenarioALine \o <<"\n">> : l \in ParseLines }

\* A request: its body, what typeof req.body is, and whether it carries a
\* User-Agent header.
Request(kind, body, hasUA) == [kind |-> kind, body |-> body, hasUserAgentHeader |-> hasUA]

JsonRequests == { Request("object", b, TRUE) : b \in JsonBodies }

TextRequests(texts) == { Request("string", t, TRUE) : t \in texts }

\* server-example.js reads the User-Agent header without a default.
ExampleRequests == JsonRequests \cup { Request("object", DefaultBody, FALSE) }

\* Math.random() of the id, as the index of the string it yields.
RandomValues == {0, 1}

-----------------------------------------------------------------------------
(* POST /api/swarm-data *)

Capacity(srv) == IF srv = "railway" THEN MAX_STORED_DATA ELSE EXAMPLE_MAX_STORED

\* Date.now() + '_' + Math.random().toString(36).substr(2, 9)
NewId(now, rnd) == ToString(now) \o "_" \o ToString(rnd)

\* swarmData.serverTimestamp = ...; swarmData.id = ...
Stamp(swarmData, now, rnd, ref) ==
    [sessionId |-> swarmData.sessionId,
     populations |-> swarmData.populations,
     totalIndividuals |-> swarmData.totalIndividuals,
     userAgent |-> swarmData.userAgent,
     format |-> swarmData.format,
     serverTimestamp |-> now,
     id |-> NewId(now, rnd),
     ref |-> ref]      \* the identity of the JavaScript object

\* Insert with the trim cutting one record too many: slice(0, cap - 1)
InsertTrimsOneMore(store, rec, cap) ==
    LET grown == <<rec>> \o store
    IN  IF Len(grown) > cap THEN Slice0(grown, cap - 1) ELSE grown

\* Insert with push in place of unshift: the new record goes to the back
InsertAtBack(store, rec, cap) ==
    LET grown == store \o <<rec>>
    IN  IF Len(grown) > cap THEN Slice0(grown, cap) ELSE grown

\* Insert without the trim
InsertWithoutTrim(store, rec, cap) == <<rec>> \o store

\* Insert with the trim cutting at the front: slice(1) drops the new record
InsertTrimsFront(store, rec, cap) ==
    LET grown == <<rec>> \o store
    IN  IF Len(grown) > cap THEN Tail(grown) ELSE grown

\* swarmDataStore.unshift(swarmData); if (length > cap) swarmDataStore = slice(0, cap)
Insert(store, rec, cap) ==
    LET grown == <<rec>> \o store
    IN  IF Len(grown) > cap THEN Slice0(grown, cap) ELSE grown

\* getClientInfo(req): the example calls userAgent.includes on an absent header.
GetClientInfoThrows(srv, req) == srv = "example" /\ ~req.hasUserAgentHeader

\* The console.log lines between the insert and res.json: they read
\* swarmData.populations.length and (example) swarmData.userAgent.includes.
LogThrows(srv, req, rec) ==
    \/ GetClientInfoThrows(srv, req)
    \/ ~IsDefined(rec.populations)
    \/ srv = "example" /\ ~IsDefined(rec.userAgent)

\* res.json({success: true, ...}), or the catch block's res.status(500).json(...)
IngestResponse(srv, req, rec) ==
    IF LogThrows(srv, req, rec)
    THEN [op |-> "ingest", status |-> 500, success |-> FALSE, ref |-> rec.ref]
    ELSE [op |-> "ingest", status |-> 200, success |-> TRUE, ref |-> rec.ref,
          dataId |-> rec.id, timestamp |-> rec.serverTimestamp]

\* typeof req.body === 'string' ? parseStandardFormat(req.body) : req.body
SwarmData(req, now, rnd) ==
    IF req.kind = "string" THEN parseStandardFormat(req.body, now, rnd) ELSE req.body

\* The Railway handler: it has no await and runs to completion.
IngestRailway(req, rnd, maxN) ==
    /\ server = "railway"
    /\ Len(inserted) < maxN
    /\ LET rec == Stamp(SwarmData(req, clock, rnd), clock, rnd, Len(inserted) + 1)
       IN  /\ swarmDataStore' = Insert(swarmDataStore, rec, Capacity(server))
           /\ inserted' = Append(inserted, rec)
           /\ response' = IngestResponse(server, req, rec)
           /\ answers' = Append(answers, 1)
    /\ UNCHANGED <<server, clock, pending, dataFile, seeded, textBody, writeFailed>>

\* server-example.js up to `await saveDataToFile()`: stamp, insert, trim, then
\* JSON.stringify(swarmDataStore) and the start of fs.writeFile.
IngestExampleStart(req, rnd, maxN, maxInFlight) ==
    /\ server = "example"
    /\ Len(inserted) < maxN
    /\ Len(pending) < maxInFlight
    /\ LET rec == Stamp(req.body, clock, rnd, Len(inserted) + 1)
           store == Insert(swarmDataStore, rec, Capacity(server))
       IN  /\ swarmDataStore' = store
           /\ inserted' = Append(inserted, rec)
           /\ pending' = Append(pending, [pc |-> "await saveDataToFile", req |-> req,
                                          rec |-> rec, snapshot |-> store])
           /\ answers' = Append(answers, 0)
    /\ UNCHANGED <<server, clock, response, dataFile, seeded, textBody, writeFailed>>

RemoveAt(s, i) == SubSeq(s, 1, i - 1) \o SubSeq(s, i + 1, Len(s))

\* saveDataToFile(): the write settles; an error is caught and logged.
SaveDataToFile(file, snapshot, ok) == IF ok THEN Some(snapshot) ELSE file

\* ResumeResponse with saveDataToFile letting the error of a failed write
\* through to the handler's catch block
ResumeResponseSurfacing(srv, h, ok) ==
    IF ok THEN IngestResponse(srv, h.req, h.rec)
    ELSE [op |-> "ingest", status |-> 500, success |-> FALSE, ref |-> h.rec.ref]

\* What the handler h answers once its write has settled: saveDataToFile has
\* caught the error of a failed write, so the handler goes on to its
\* console.log lines and res.json either way.
ResumeResponse(srv, h, ok) == IngestResponse(srv, h.req, h.rec)

\* IngestExampleResume with neither saveDataToFile nor the handler catching
\* the error of a failed write: the handler ends without a response
IngestExampleResumeUncaught(i, ok) ==
    /\ server = "example"
    /\ i \in 1..Len(pending)
    /\ dataFile' = SaveDataToFile(dataFile, pending[i].snapshot, ok)
    /\ response' = IF ok THEN ResumeResponse(server, pending[i], ok) ELSE response
    /\ answers' = IF ok THEN [answers EXCEPT ![pending[i].rec.ref] = @ + 1] ELSE answers
    /\ pending' = RemoveAt(pending, i)
    /\ writeFailed' = (writeFailed \/ ~ok)
    /\ UNCHANGED <<server, swarmDataStore, clock, inserted, seeded, textBody>>

\* fs.writeFile of the i-th suspended handler settles (writes of several
\* handlers settle in any order) and the handler runs on to its response.
IngestExampleResume(i, ok) ==
    /\ server = "example"
    /\ i \in 1..Len(pending)
    /\ dataFile' = SaveDataToFile(dataFile, pending[i].snapshot, ok)
    /\ response' = ResumeResponse(server, pending[i], ok)
    /\ answers' = [answers EXCEPT ![pending[i].rec.ref] = @ + 1]
    /\ pending' = RemoveAt(pending, i)
    /\ writeFailed' = (writeFailed \/ ~ok)
    /\ UNCHANGED <<server, swarmDataStore, clock, inserted, seeded, textBody>>

-----------------------------------------------------------------------------
(* GET /api/swarm-data/latest *)

NoData(op) == [op |-> op, status |-> 200, success |-> FALSE, data |-> "null"]

ServerError(op) == [op |-> op, status |-> 500, success |-> FALSE]

\* populations.map(pop => ({count: pop.count, ..., cohesion: pop.parameters.c1, ...}))
UnityPopulation(pop) ==
    LET p == Val(pop.parameters)
    IN  [count |-> pop.count,
         neighborhoodRadius |-> p.neighborhoodRadius,
         normalSpeed |-> p.normalSpeed,
         maxSpeed |-> p.maxSpeed,
         cohesion |-> p.c1,
         alignment |-> p.c2,
         separation |-> p.c3,
         randomness |-> p.c4,
         speedControl |-> p.c5,
         color |-> p.color]

\* populations.map throws on a record without populations, pop.parameters.x on
\* a population without parameters.
MapThrows(rec) ==
    \/ ~IsDefined(rec.populations)
    \/ \E i \in 1..Len(Val(rec.populations)) : ~IsDefined(Val(rec.populations)[i].parameters)

\* The answer for the front record latestData of a store that is not empty.
UnityData(latestData) ==
    IF MapThrows(latestData) THEN ServerError("latest")
    ELSE [op |-> "latest", status |-> 200, success |-> TRUE,
          timestamp |-> latestData.serverTimestamp,
          sessionId |-> latestData.sessionId,
          totalParticles |-> latestData.totalIndividuals,
          populations |->
              [i \in 1..Len(Val(latestData.populations)) |->
                  UnityPopulation(Val(latestData.populations)[i])]]

\* LatestResponse without the test for an empty store: swarmDataStore[0] is
\* undefined, reading its field throws, and the catch block answers 500
LatestResponseUnguarded(store) ==
    IF Len(store) = 0 THEN ServerError("latest") ELSE UnityData(store[1])

LatestResponse(store) ==
    IF Len(store) = 0 THEN NoData("latest") ELSE UnityData(store[1])

GetLatest ==
    /\ response' = LatestResponse(swarmDataStore)
    /\ UNCHANGED <<server, swarmDataStore, clock, pending, dataFile, inserted, seeded, textBody,
                   writeFailed, answers>>

-----------------------------------------------------------------------------
(* GET /api/swarm-data/standard (Railway) *)

\* latestData.populations.length throws on a record without populations
StandardResponse(store) ==
    IF Len(store) = 0 THEN NoData("standard")
    ELSE LET latestData == store[1]
         IN  IF ConvertThrows(latestData) \/ ~IsDefined(latestData.populations)
             THEN ServerError("standard")
             ELSE [op |-> "standard", status |-> 200, success |-> TRUE,
                   timestamp |-> latestData.serverTimestamp,
                   sessionId |-> latestData.sessionId,
                   totalParticles |-> latestData.totalIndividuals,
                   standardFormat |-> convertToStandardFormat(latestData),
                   populationCount |-> Len(Val(latestData.populations))]

GetStandard ==
    /\ server = "railway"
    /\ response' = StandardResponse(swarmDataStore)
    /\ UNCHANGED <<server, swarmDataStore, clock, pending, dataFile, inserted, seeded, textBody,
                   writeFailed, answers>>

-----------------------------------------------------------------------------
(* GET /api/swarm-data/history *)

\* The values of the query parameter `limit` the model sends: absent, or a text.
LimitParams ==
    {UNDEFINED, Some(<<"a", "b", "c">>), Some(<<"-", "1">>), Some(<<"0">>), Some(<<"1">>),
     Some(<<"2">>), Some(<<"1", "1">>)}

ExampleLimitParams == {UNDEFINED, Some(<<"1">>)}

\* parseInt(req.query.limit): parseInt(undefined) is NaN
ParseIntLimit(q) == IF IsDefined(q) THEN ParseInt(Val(q)) ELSE NaN

\* parseInt(req.query.limit) || 10: NaN and 0 are falsy.
HistoryLimit(q) ==
    LET n == ParseIntLimit(q)
    IN  IF IsNaN(n) \/ n = Num(0) THEN DEFAULT_LIMIT ELSE Val(n)

\* swarmDataStore.slice(0, Math.min(limit, swarmDataStore.length)); the
\* example's slice(0, limit) yields the same array.
HistorySlice(store, limit) == Slice0(store, Min(limit, Len(store)))

HistoryResponse(store, q) ==
    LET history == HistorySlice(store, HistoryLimit(q))
    IN  [op |-> "history", status |-> 200, success |-> TRUE,
         count |-> Len(history), total |-> Len(store), data |-> history]

\* GetHistory with splice in place of slice: the records answered leave the
\* store
GetHistoryWithSplice(q) ==
    /\ response' = HistoryResponse(swarmDataStore, q)
    /\ swarmDataStore' = SubSeq(swarmDataStore, response'.count + 1, Len(swarmDataStore))
    /\ UNCHANGED <<server, clock, pending, dataFile, inserted, seeded, textBody, writeFailed, answers>>

GetHistory(q) ==
    /\ response' = HistoryResponse(swarmDataStore, q)
    /\ UNCHANGED <<server, swarmDataStore, clock, pending, dataFile, inserted, seeded, textBody,
                   writeFailed, answers>>

-----------------------------------------------------------------------------
(* GET /api/stats *)

\* UniqueSessions over a set that counts every id as a session of its own
UniqueSessionsAndIds(store) ==
    Cardinality({store[i].sessionId : i \in 1..Len(store)}
                    \cup {Some(store[i].id) : i \in 1..Len(store)})

\* new Set(swarmDataStore.map(d => d.sessionId)).size
UniqueSessions(store) == Cardinality({store[i].sessionId : i \in 1..Len(store)})

\* sum + d.totalIndividuals: adding undefined yields NaN, and NaN stays NaN
JsAdd(sum, x) == IF IsNaN(sum) \/ ~IsDefined(x) THEN NaN ELSE Num(Val(sum) + Val(x))

\* swarmDataStore.reduce((sum, d) => sum + d.totalIndividuals, 0)
RECURSIVE ReduceTotal(_, _)
ReduceTotal(store, sum) ==
    IF store = <<>> THEN sum
    ELSE ReduceTotal(Tail(store), JsAdd(sum, Head(store).totalIndividuals))

TotalParticles(store) == ReduceTotal(store, Num(0))

\* Math.round(x / n) for x >= 0, n > 0: halves round up
RoundDiv(x, n) == (2 * x + n) \div (2 * n)

AverageParticles(store) ==
    IF Len(store) > 0
    THEN (IF IsNaN(TotalParticles(store)) THEN NaN
          ELSE Num(RoundDiv(Val(TotalParticles(store)), Len(store))))
    ELSE Num(0)

StatsResponse(store) ==
    [op |-> "stats", status |-> 200,
     totalSubmissions |-> Len(store),
     latestSubmission |-> IF Len(store) > 0 THEN Some(store[1].serverTimestamp) ELSE UNDEFINED,
     uniqueSessions |-> UniqueSessions(store),
     totalParticles |-> TotalParticles(store),
     averageParticles |-> AverageParticles(store)]

GetStats ==
    /\ response' = StatsResponse(swarmDataStore)
    /\ UNCHANGED <<server, swarmDataStore, clock, pending, dataFile, inserted, seeded, textBody,
                   writeFailed, answers>>

-----------------------------------------------------------------------------
(* GET /health (Railway), GET /status (Railway), GET / (example) *)

StatusResponse(store) == [op |-> "status", status |-> 200, dataCount |-> Len(store)]

GetStatus ==
    /\ response' = StatusResponse(swarmDataStore)
    /\ UNCHANGED <<server, swarmDataStore, clock, pending, dataFile, inserted, seeded, textBody,
                   writeFailed, answers>>

-----------------------------------------------------------------------------
(* The clock *)

Tick ==
    /\ clock < MaxClock
    /\ clock' = clock + 1
    /\ UNCHANGED <<server, swarmDataStore, response, pending, dataFile, inserted, seeded, textBody,
                   writeFailed, answers>>

-----------------------------------------------------------------------------
(* Start of the process *)

NoResponse == [op |-> "none"]

\* What swarm-data.json may hold when server-example.js starts: nothing, or
\* the store an earlier run of the server wrote.
SeedFiles == {UNDEFINED, Some(<<Stamp(DefaultBody, 0, 0, 0)>>)}

\* loadExistingData(): the parsed file, or [] when reading it fails
LoadExistingData(file) == IF IsDefined(file) THEN Val(file) ELSE <<>>

InitRailway ==
    /\ server = "railway"
    /\ swarmDataStore = <<>>
    /\ dataFile = UNDEFINED

InitExample(files) ==
    /\ server = "example"
    /\ dataFile \in files
    /\ swarmDataStore = LoadExistingData(dataFile)

InitCommon(texts) ==
    /\ clock = 0
    /\ response = NoResponse
    /\ pending = <<>>
    /\ inserted = <<>>
    /\ seeded = swarmDataStore
    /\ textBody \in texts
    /\ writeFailed = FALSE
    /\ answers = <<>>

-----------------------------------------------------------------------------
(* Spec: the Railway server, every request, a few ingest calls *)

Init == InitRailway /\ InitCommon(TextBodies)

Next ==
    \/ \E req \in JsonRequests \cup TextRequests({textBody}), rnd \in RandomValues :
           IngestRailway(req, rnd, MaxIngest)
    \/ GetLatest
    \/ GetStandard
    \/ \E q \in LimitParams : GetHistory(q)
    \/ GetStats
    \/ GetStatus
    \/ Tick

Spec == Init /\ [][Next]_vars

-----------------------------------------------------------------------------
(* SpecExample: server-example.js, every request, a few ingest calls *)

InitExampleServer == InitExample(SeedFiles) /\ InitCommon({<<>>})

NextExample ==
    \/ \E req \in ExampleRequests : IngestExampleStart(req, 0, MaxIngest, MaxInFlight)
    \/ \E i \in 1..MaxInFlight, ok \in BOOLEAN : IngestExampleResume(i, ok)
    \/ GetLatest
    \/ \E q \in ExampleLimitParams : GetHistory(q)
    \/ GetStats
    \/ GetStatus
    \/ Tick

SpecExample == InitExampleServer /\ [][NextExample]_vars

-----------------------------------------------------------------------------
(* SpecRetention: both servers filled beyond their capacity by the web page's *)
(* canonical submission, one ingest call at a time                            *)

DefaultRequest == Request("object", DefaultBody, TRUE)

\* the query ?limit=<capacity>
CapacityLimit(srv) == Some(IntToText(Capacity(srv)))

InitRetention == (InitRailway \/ InitExample({UNDEFINED})) /\ InitCommon({<<>>})

NextRetention ==
    \/ IngestRailway(DefaultRequest, 0, Capacity(server) + MaxExtra)
    \/ IngestExampleStart(DefaultRequest, 0, Capacity(server) + MaxExtra, 1)
    \/ IngestExampleResume(1, TRUE)
    \/ GetHistory(CapacityLimit(server))

SpecRetention == InitRetention /\ [][NextRetention]_vars

-----------------------------------------------------------------------------
(* SpecParse: the Railway server with a client that posts one text, drawn    *)
(* from ParseTexts, and reads it back                                        *)

InitParse == InitRailway /\ InitCommon(ParseTexts)

NextParse ==
    \/ IngestRailway(Request("string", textBody, TRUE), 0, MaxIngest)
    \/ GetLatest
    \/ GetStandard

SpecParse == InitParse /\ [][NextParse]_vars

-----------------------------------------------------------------------------
(* SpecAnswer: the ingest handlers of both servers, with every write of      *)
(* saveDataToFile settling in the end                                        *)

InitAnswer == (InitRailway \/ InitExample(SeedFiles)) /\ InitCommon(TextBodies)

NextAnswer ==
    \/ \E req \in JsonRequests \cup TextRequests({textBody}) : IngestRailway(req, 0, MaxIngest)
    \/ \E req \in ExampleRequests : IngestExampleStart(req, 0, MaxIngest, MaxInFlight)
    \/ \E i \in 1..MaxInFlight, ok \in BOOLEAN : IngestExampleResume(i, ok)

\* fs.writeFile settles, with or without error, for every suspended handler
WritesSettle ==
    \A i \in 1..MaxInFlight : WF_vars(\E ok \in BOOLEAN : IngestExampleResume(i, ok))

SpecAnswer == InitAnswer /\ [][NextAnswer]_vars /\ WritesSettle

-----------------------------------------------------------------------------
(* Properties *)

\* the n records inserted last, newest first
NewestFirst(n) == [i \in 1..n |-> inserted[Len(inserted) - i + 1]]

\* C1: after N ingest calls into a store that started empty, with capacity C,
\* the store holds min(N, C) records, and they are the min(N, C) records
\* inserted last, newest first; from C + 1 ingest calls on, the record
\* ingested first is not in history(C).
RetentionKeepsNewest ==
    seeded = <<>> =>
        LET N == Len(inserted)
            C == Capacity(server)
            history == HistoryResponse(swarmDataStore, CapacityLimit(server)).data
        IN  /\ Len(swarmDataStore) = Min(N, C)
            /\ swarmDataStore = NewestFirst(Min(N, C))
            /\ N >= C + 1 => \A j \in 1..Len(history) : history[j] # inserted[1]

\* C1 witness: one record more than the capacity has been ingested, and
\* history(C) has answered with C records.
RetentionEvicted ==
    /\ Len(inserted) = Capacity(server) + 1
    /\ Len(swarmDataStore) = Capacity(server)
    /\ response.op = "history"
    /\ response.count = Capacity(server)

\* C2: an ingest call that answers with a failure leaves the store as it was
\* before the call.
FailedIngestLeavesStore ==
    [][(inserted' # inserted /\ response'.op = "ingest" /\ ~response'.success)
          => swarmDataStore' = swarmDataStore]_vars

\* C3: every record in the store has totalIndividuals equal to the sum of the
\* counts of its populations.
TotalIsSumOfCounts ==
    \A i \in 1..Len(swarmDataStore) :
        IsDefined(swarmDataStore[i].populations) =>
            swarmDataStore[i].totalIndividuals
                = Some(CountSum(Val(swarmDataStore[i].populations)))

\* history(limit) as the specification words it: the first min(limit, length)
\* records for a limit above 0, and the limit 10 for a limit that is absent,
\* not a number, zero or negative.
HistoryAsSpecified(store, q) ==
    LET n == ParseIntLimit(q)
        limit == IF IsNaN(n) \/ Val(n) <= 0 THEN DEFAULT_LIMIT ELSE Val(n)
        k == Min(limit, Len(store))
    IN  [op |-> "history", status |-> 200, success |-> TRUE,
         count |-> k, total |-> Len(store), data |-> SubSeq(store, 1, k)]

\* C4: every history(limit) call answers as specified, for every limit.
HistoryFollowsLimit ==
    [][\A q \in LimitParams :
          GetHistory(q) => response' = HistoryAsSpecified(swarmDataStore, q)]_vars

\* The whole-line grammar ^\s*(\d+)\s*\*\s*\(([^)]+)\)\s*$ of the
\* specification: the two groups, or UNDEFINED.
WholeLineMatch(line) ==
    LET i == SkipSpace(line, 1)
        m == MatchAt(line, i)
        j == SkipDigits(line, i)
        k == SkipSpace(line, j)
        o == SkipSpace(line, k + 1)
        r == IndexOf(line, ")", o + 1)
    IN  IF IsDefined(m) /\ SkipSpace(line, r + 1) > Len(line) THEN m ELSE UNDEFINED

\* a token that is a number and nothing else: a sign, digits, a fraction
IsNumberToken(token) ==
    LET t == Trim(token)
        b == IF t # <<>> /\ t[1] \in {"-", "+"} THEN 2 ELSE 1
        e == SkipDigits(t, b)
        f == IF e <= Len(t) /\ t[e] = "." THEN SkipDigits(t, e + 1) ELSE e
    IN  /\ f > Len(t)
        /\ \E d \in b..Len(t) : IsDigit(t[d])

\* the populations of a line under the grammar of the specification
GrammarLinePopulations(line) ==
    LET match == WholeLineMatch(line)
        tokens == Split(Val(match).group, ",")
    IN  IF IsDefined(match) /\ Len(tokens) = 8 /\ \A t \in 1..8 : IsNumberToken(tokens[t])
        THEN LinePopulations(line, RandomColor)
        ELSE <<>>

RECURSIVE GrammarPopulations(_)
GrammarPopulations(lines) ==
    IF lines = <<>> THEN <<>>
    ELSE GrammarLinePopulations(Head(lines)) \o GrammarPopulations(Tail(lines))

\* C5: the record a text ingest stores has one population for each line that
\* matches the whole-line grammar with eight numeric tokens, in line order,
\* and nothing for any other line.
ParserFollowsGrammar ==
    \A i \in 1..Len(swarmDataStore) :
        swarmDataStore[i].format = Some("standard") =>
            LET expected == GrammarPopulations(NonBlankLines(textBody))
            IN  /\ swarmDataStore[i].populations = Some(expected)
                /\ swarmDataStore[i].totalIndividuals = Some(CountSum(expected))

\* two parameters that are equal up to the rounding to two decimals
SameUpToRounding(x, y) ==
    \/ IsNaN(x) /\ IsNaN(y)
    \/ /\ ~IsNaN(x)
       /\ ~IsNaN(y)
       /\ Val(x) - Val(y) <= 5
       /\ Val(y) - Val(x) <= 5

SameParameters(p, q) ==
    /\ SameUpToRounding(p.neighborhoodRadius, q.neighborhoodRadius)
    /\ SameUpToRounding(p.normalSpeed, q.normalSpeed)
    /\ SameUpToRounding(p.maxSpeed, q.maxSpeed)
    /\ SameUpToRounding(p.c1, q.c1)
    /\ SameUpToRounding(p.c2, q.c2)
    /\ SameUpToRounding(p.c3, q.c3)
    /\ SameUpToRounding(p.c4, q.c4)
    /\ SameUpToRounding(p.c5, q.c5)

\* parseStandardFormat(convertToStandardFormat(rec)) yields the populations of rec
RoundTrips(rec) ==
    /\ ~ConvertThrows(rec)
    /\ LET pops == Val(rec.populations)
           back == ParsePopulations(convertToStandardFormat(rec), RandomColor)
       IN  /\ Len(back) = Len(pops)
           /\ \A k \in 1..Len(pops) :
                  /\ back[k].count = pops[k].count
                  /\ SameParameters(Val(back[k].parameters), Val(pops[k].parameters))

\* C6: every stored record that has populations comes back from serializing
\* and parsing with the same populations: their number, their order, their
\* counts, and their parameters up to rounding.
StoredRecordsRoundTrip ==
    \A i \in 1..Len(swarmDataStore) :
        IsDefined(swarmDataStore[i].populations) => RoundTrips(swarmDataStore[i])

\* C7: when the write of an ingest call fails, the store stays as it is with
\* the record of the call in it, and the call answers what it answers after a
\* write that succeeded: success with the id and the timestamp of its record,
\* unless its own logging throws.
WriteFailureNotSurfaced ==
    [][\A i \in 1..MaxInFlight :
          (i <= Len(pending) /\ IngestExampleResume(i, FALSE)) =>
              LET h == pending[i]
              IN  /\ swarmDataStore' = swarmDataStore
                  /\ \E k \in 1..Len(swarmDataStore') : swarmDataStore'[k] = h.rec
                  /\ response'.op = "ingest"
                  /\ response'.ref = h.rec.ref
                  /\ response'.success = ~LogThrows(server, h.req, h.rec)
                  /\ h.req = DefaultRequest => response'.success
                  /\ response'.success =>
                         /\ response'.dataId = h.rec.id
                         /\ response'.timestamp = h.rec.serverTimestamp]_vars

\* C7 witness: no write has ever reached the file, no handler is suspended,
\* and the last ingest call has answered success for a record in the store.
FailedWriteAnsweredSuccess ==
    /\ server = "example"
    /\ dataFile = UNDEFINED
    /\ pending = <<>>
    /\ response.op = "ingest"
    /\ response.success
    /\ \E k \in 1..Len(swarmDataStore) :
           /\ swarmDataStore[k].ref = response.ref
           /\ swarmDataStore[k].id = response.dataId

\* C8: no ingest call waits for its persistence write before it answers: no
\* handler is ever suspended at the await of saveDataToFile with its
\* response unsent.
ResponseNeverAwaitsWrite ==
    \A i \in 1..Len(pending) : pending[i].pc # "await saveDataToFile"

\* C9: on an empty store latest() and latestAsText() answer {success: false,
\* data: null} with status 200, history() answers success with count 0 and
\* total 0, and stats() answers totalSubmissions 0 and no latestSubmission.
EmptyStoreIsNoError ==
    [][swarmDataStore = <<>> =>
          /\ GetLatest =>
                 /\ response'.status = 200
                 /\ response'.success = FALSE
                 /\ response'.data = "null"
          /\ GetStandard =>
                 /\ response'.status = 200
                 /\ response'.success = FALSE
                 /\ response'.data = "null"
          /\ \A q \in LimitParams :
                 GetHistory(q) =>
                     /\ response'.status = 200
                     /\ response'.success
                     /\ response'.count = 0
                     /\ response'.total = 0
          /\ GetStats =>
                 /\ response'.status = 200
                 /\ response'.totalSubmissions = 0
                 /\ response'.latestSubmission = UNDEFINED]_vars

\* C9 witness: latest() has answered "no data" on the empty store.
EmptyStoreAnsweredNoData ==
    /\ swarmDataStore = <<>>
    /\ response.op = "latest"
    /\ response.status = 200
    /\ ~response.success

\* C10: stats().uniqueSessions <= stats().totalSubmissions, the latter being
\* the store size, in every state and in every stats() answer.
UniqueSessionsAtMostTotal ==
    /\ StatsResponse(swarmDataStore).totalSubmissions = Len(swarmDataStore)
    /\ StatsResponse(swarmDataStore).uniqueSessions
           <= StatsResponse(swarmDataStore).totalSubmissions
    /\ response.op = "stats" => response.uniqueSessions <= response.totalSubmissions

\* C10 witness: stats() has answered for two records of one session.
TwoRecordsOneSession ==
    /\ response.op = "stats"
    /\ response.totalSubmissions = 2
    /\ response.uniqueSessions = 1

\* C11: stats().totalParticles is the sum of totalIndividuals over the records
\* now in the store, and stats().averageParticles is 0 for the empty store and
\* otherwise that sum divided by the store size, rounded to the nearest
\* integer.
StatsTotalsOfStore ==
    LET stats == StatsResponse(swarmDataStore)
        n == Len(swarmDataStore)
    IN  /\ \A i \in 1..n : IsDefined(swarmDataStore[i].totalIndividuals)
        /\ ~IsNaN(stats.totalParticles)
        /\ Val(stats.totalParticles)
               = SumSeq([i \in 1..n |-> Val(swarmDataStore[i].totalIndividuals)])
        /\ ~IsNaN(stats.averageParticles)
        /\ n = 0 => Val(stats.averageParticles) = 0
        /\ n > 0 =>
               LET d == 2 * (n * Val(stats.averageParticles) - Val(stats.totalParticles))
               IN  -n <= d /\ d <= n

\* C11 witness: stats() has answered for a store that holds a record without
\* totalIndividuals.
StatsOverRecordWithoutTotal ==
    /\ response.op = "stats"
    /\ response.totalSubmissions > 0
    /\ \E i \in 1..Len(swarmDataStore) : ~IsDefined(swarmDataStore[i].totalIndividuals)
    /\ IsNaN(response.totalParticles)

\* C12: no two records ever inserted, evicted ones included, carry the same
\* id.
IdsUniqueOverLifetime ==
    \A i, j \in 1..Len(inserted) : i # j => inserted[i].id # inserted[j].id

\* C12 witness: two ingest calls in the same clock millisecond.
TwoIngestsInOneMillisecond ==
    /\ Len(inserted) >= 2
    /\ inserted[1].serverTimestamp = inserted[2].serverTimestamp

\* C13: the server timestamps in the store do not decrease with insertion
\* order: a record nearer the front of the store carries a timestamp at least
\* as late as every record behind it.
TimestampsNewestFirst ==
    \A i, j \in 1..Len(swarmDataStore) :
        i < j => swarmDataStore[i].serverTimestamp >= swarmDataStore[j].serverTimestamp

\* C13 witness: the front record was stamped later than the record behind it.
LaterRecordInFront ==
    /\ Len(swarmDataStore) >= 2
    /\ swarmDataStore[1].serverTimestamp > swarmDataStore[2].serverTimestamp

\* latest() as the specification words it for the front record rec: the
\* timestamp, the session, the total and the populations of rec, in order,
\* with c1..c5 under their domain names.
ProjectsFrontRecord(resp, rec) ==
    /\ resp.op = "latest"
    /\ resp.success
    /\ resp.timestamp = rec.serverTimestamp
    /\ resp.sessionId = rec.sessionId
    /\ resp.totalParticles = rec.totalIndividuals
    /\ IsDefined(rec.populations)
    /\ Len(resp.populations) = Len(Val(rec.populations))
    /\ \A i \in 1..Len(resp.populations) :
           LET pop == Val(rec.populations)[i]
               out == resp.populations[i]
           IN  /\ out.count = pop.count
               /\ IsDefined(pop.parameters)
               /\ out.neighborhoodRadius = Val(pop.parameters).neighborhoodRadius
               /\ out.normalSpeed = Val(pop.parameters).normalSpeed
               /\ out.maxSpeed = Val(pop.parameters).maxSpeed
               /\ out.cohesion = Val(pop.parameters).c1
               /\ out.alignment = Val(pop.parameters).c2
               /\ out.separation = Val(pop.parameters).c3
               /\ out.randomness = Val(pop.parameters).c4
               /\ out.speedControl = Val(pop.parameters).c5

\* C14: an ingest call puts its record at the front of the store, and when it
\* answers success it answers the id and the timestamp of that record;
\* latest() on a store that is not empty answers the projection of the front
\* record.
IngestAndLatestAgree ==
    [][/\ inserted' # inserted =>
              LET rec == inserted'[Len(inserted')]
              IN  /\ swarmDataStore'[1] = rec
                  /\ (response'.op = "ingest" /\ response' # response /\ response'.success) =>
                         /\ response'.dataId = rec.id
                         /\ response'.timestamp = rec.serverTimestamp
       /\ (GetLatest /\ swarmDataStore # <<>>) =>
              ProjectsFrontRecord(response', swarmDataStore[1])]_vars

\* C14 witness: latest() has answered for a store that is not empty.
LatestAnsweredForFrontRecord ==
    /\ swarmDataStore # <<>>
    /\ response.op = "latest"
    /\ response.status = 200
    /\ response.success
    /\ response.timestamp = swarmDataStore[1].serverTimestamp

\* C15: in every state another handler can run in, a state with an ingest
\* call suspended at its await included, the store holds no more records than
\* its capacity and every record in it carries its id and its
\* serverTimestamp.
NoPartialMutationObservable ==
    /\ Len(swarmDataStore) <= Capacity(server)
    /\ \A i \in 1..Len(swarmDataStore) :
           /\ {"id", "serverTimestamp"} \subseteq DOMAIN swarmDataStore[i]
           /\ swarmDataStore[i].id
                  \in {NewId(swarmDataStore[i].serverTimestamp, rnd) : rnd \in RandomValues}

\* C15 witness: the store is full, an ingest call beyond the capacity is
\* suspended at its await, and its record is at the front of the store.
SuspendedIngestOnFullStore ==
    /\ server = "example"
    /\ Len(pending) = 1
    /\ pending[1].pc = "await saveDataToFile"
    /\ Len(inserted) > Capacity(server)
    /\ Len(swarmDataStore) = Capacity(server)
    /\ swarmDataStore[1] = pending[1].rec

\* C16: an insert leaves every record that stays in the store as it was and
\* one position further back, puts the new record at the front, and removes
\* only what lies beyond the capacity.
InsertOnlyShifts ==
    [][inserted' # inserted =>
          LET kept == Min(Len(swarmDataStore), Capacity(server) - 1)
          IN  /\ Len(swarmDataStore') = kept + 1
              /\ swarmDataStore'[1] = inserted'[Len(inserted')]
              /\ \A i \in 1..kept : swarmDataStore'[i + 1] = swarmDataStore[i]
              /\ \A i \in 1..Len(swarmDataStore), j \in 1..Len(swarmDataStore') :
                     swarmDataStore[i].ref = swarmDataStore'[j].ref =>
                         swarmDataStore[i] = swarmDataStore'[j]]_vars

\* C16 witness: an insert into the full store has evicted the oldest record
\* and kept the others.
InsertShiftedFullStore ==
    /\ Len(inserted) = Capacity(server) + 1
    /\ Len(swarmDataStore) = Capacity(server)
    /\ swarmDataStore[1] = inserted[Len(inserted)]
    /\ swarmDataStore[Capacity(server)] = inserted[2]

\* C17: latest(), latestAsText(), history(limit), stats() and the status
\* pages leave the store as it is, whatever the store, the limit and the
\* answer.
ReadsLeaveStoreUnchanged ==
    [][(GetLatest \/ GetStandard \/ (\E q \in LimitParams : GetHistory(q)) \/ GetStats
            \/ GetStatus)
          => /\ swarmDataStore' = swarmDataStore
             /\ inserted' = inserted
             /\ dataFile' = dataFile]_vars

\* C17 witness: a read has answered with a server error and the store still
\* holds the record it failed on.
FailedReadKeptStore ==
    /\ response.op \in {"latest", "standard"}
    /\ response.status = 500
    /\ swarmDataStore # <<>>
    /\ swarmDataStore = NewestFirst(Len(inserted))

\* C18: a text ingest answers success whatever the text and puts exactly one
\* record at the front of the store: a record of format 'standard' with a
\* synthesized sessionId and the parser's descriptor; when no line of the text
\* matches the pattern, its populations are empty and its totalIndividuals
\* is 0.
TextIngestAlwaysSucceeds ==
    [][inserted' # inserted =>
          LET rec == swarmDataStore'[1]
          IN  /\ response'.op = "ingest"
              /\ response'.status = 200
              /\ response'.success
              /\ response'.dataId = rec.id
              /\ Len(inserted') = Len(inserted) + 1
              /\ swarmDataStore' = <<rec>> \o swarmDataStore
              /\ rec.format = Some("standard")
              /\ rec.sessionId = Some(StandardSessionId(rec.serverTimestamp, 0))
              /\ rec.userAgent = Some("Standard Format Parser")
              /\ IsDefined(rec.populations)
              /\ IsDefined(rec.totalIndividuals)
              /\ (\A k \in 1..Len(NonBlankLines(textBody)) :
                      ~IsDefined(LineMatch(NonBlankLines(textBody)[k])))
                     => /\ rec.populations = Some(<<>>)
                        /\ rec.totalIndividuals = Some(0)
              /\ textBody = ScenarioALine =>
                     /\ Len(Val(rec.populations)) = 1
                     /\ Val(rec.populations)[1].count = 2
                     /\ rec.totalIndividuals = Some(2)]_vars

\* C18 witness: a text without a matching line has been ingested with
\* success, and its record with no population is at the front of the store.
TextWithoutMatchAccepted ==
    /\ textBody = GarbageLine
    /\ response.op = "ingest"
    /\ response.success
    /\ swarmDataStore # <<>>
    /\ swarmDataStore[1].populations = Some(<<>>)
    /\ swarmDataStore[1].totalIndividuals = Some(0)
    /\ swarmDataStore[1].format = Some("standard")

\* C19: whatever has been ingested, latest() and latestAsText() on a store
\* that is not empty answer success, never a server error.
QueriesSucceedOnEveryStore ==
    swarmDataStore # <<>> =>
        /\ LatestResponse(swarmDataStore).status = 200
        /\ LatestResponse(swarmDataStore).success
        /\ server = "railway" =>
               /\ StandardResponse(swarmDataStore).status = 200
               /\ StandardResponse(swarmDataStore).success

\* C19 witness: latest() has answered 500 for a front record that has no
\* populations.
LatestFailedOnFrontRecord ==
    /\ swarmDataStore # <<>>
    /\ ~IsDefined(swarmDataStore[1].populations)
    /\ response.op = "latest"
    /\ response.status = 500

\* C20: in server-example.js, once every ingest call has finished and every
\* write of saveDataToFile has completed without error, the file holds the
\* store: the same records in the same order.
FileEqualsStoreWhenQuiet ==
    (server = "example" /\ inserted # <<>> /\ pending = <<>> /\ ~writeFailed)
        => dataFile = Some(swarmDataStore)

\* C20 witness: two ingest calls have finished, every write has succeeded, and
\* the file holds the store with both records.
FileHoldsBothRecords ==
    /\ server = "example"
    /\ Len(inserted) = 2
    /\ pending = <<>>
    /\ ~writeFailed
    /\ dataFile = Some(swarmDataStore)

\* C21: every ingest call is answered in the end, with a success or a
\* failure, and is never answered twice: from the moment of the k-th call on,
\* its count of responses comes to 1 and stays there, and no count ever
\* exceeds 1.
EveryIngestAnsweredOnce ==
    /\ [](\A k \in 1..Len(answers) : answers[k] <= 1)
    /\ \A k \in 1..MaxIngest :
           (Len(inserted) >= k) ~> [](Len(answers) >= k /\ answers[k] = 1)

\* C21 witness: two ingest calls of server-example.js were suspended
\* together, the write of one has failed, and both have been answered once.
BothSuspendedCallsAnswered ==
    /\ server = "example"
    /\ Len(inserted) = 2
    /\ inserted[2].serverTimestamp = inserted[1].serverTimestamp
    /\ pending = <<>>
    /\ writeFailed
    /\ answers = <<1, 1>>

====
